---- MODULE Spec2Model ----
(***************************************************************************)
(* Model of src/dungeons_n_diagrams.py: print_dungeon_solutions compiles a *)
(* Dungeon (hints, monsters, treasures) into boolean constraints, asks the *)
(* solver for every wall assignment that satisfies them (blocking each     *)
(* model found) and prints the solutions.                                  *)
(*                                                                         *)
(* Coordinates are 0-based pairs <<x, y>> as in the source.  A solver      *)
(* model is a record [w, t, oob]: w is the set of in-bounds tiles whose    *)
(* w_x_y variable is true, t the set of tiles whose t_x_y variable is      *)
(* true, oob the value of the variable out_of_bounds.  The solver itself   *)
(* is represented by the set of models that satisfy everything asserted.   *)
(***************************************************************************)
EXTENDS Integers, Sequences, FiniteSets, TLC

VARIABLES dungeon, pc, solver, asserted, checks, solutions, output

vars == <<dungeon, pc, solver, asserted, checks, solutions, output>>

(* ---------------- bounds of the instances explored ---------------- *)
MaxW == 2
MaxH == 2
MaxHint == 2
MaxMonsters == 1
MaxTreasures == 1
DesignW == 3
DesignH == 3
DesignTreasures == 1
RoomW == 8
RoomH == 3
MaxRooms == 2

(* ---------------- Dungeon (src lines 6-23) ---------------- *)
Width(d) == Len(d.col_hints)
Height(d) == Len(d.row_hints)

Tiles(d) == (0 .. Width(d) - 1) \X (0 .. Height(d) - 1)

range_inc(start, stop) == start .. stop

(* wall_map[x][y]: the tile's variable in bounds, out_of_bounds_wall elsewhere *)
wall_map(d, m, p) == IF p \in Tiles(d) THEN p \in m.w ELSE m.oob

(* treasure_map[x][y], only ever read in bounds *)
treasure_map(d, m, p) == p \in m.t

(* BoolCount over a list of distinct positions *)
BoolCount(d, m, ps) == Cardinality({p \in ps : wall_map(d, m, p)})

(* ---------------- treasure rooms (src lines 56-117) ---------------- *)
(* the bounds test written with < and > : centers on the border pass *)
treasure_room_positions_border(d, p) ==
    {c \in range_inc(p[1] - 1, p[1] + 1) \X range_inc(p[2] - 1, p[2] + 1) :
        ~(c[1] < 0 \/ c[1] > Width(d) - 1 \/ c[2] < 0 \/ c[2] > Height(d) - 1)}

treasure_room_positions(d, p) ==
    {c \in range_inc(p[1] - 1, p[1] + 1) \X range_inc(p[2] - 1, p[2] + 1) :
        ~(c[1] <= 0 \/ c[1] >= Width(d) - 1 \/ c[2] <= 0 \/ c[2] >= Height(d) - 1)}

(* the two >= comparisons written <= *)
are_rooms_too_close_flipped(a, b) ==
    /\ (b[1] - 2) <= (a[1] + 1)
    /\ (b[1] + 2) <= (a[1] - 1)
    /\ (b[2] - 2) <= (a[2] + 1)
    /\ (b[2] + 2) <= (a[2] - 1)

are_rooms_too_close(a, b) ==
    /\ (b[1] - 2) <= (a[1] + 1)
    /\ (b[1] + 2) >= (a[1] - 1)
    /\ (b[2] - 2) <= (a[2] + 1)
    /\ (b[2] + 2) >= (a[2] - 1)

(* a product that yields nothing when there is no treasure *)
treasure_room_position_combinations_nonempty(d) ==
    {centers \in [d.treasures -> UNION {treasure_room_positions(d, p) : p \in d.treasures}] :
        /\ d.treasures # {}
        /\ \A p \in d.treasures : centers[p] \in treasure_room_positions(d, p)}

(* the product of treasure_room_positions over the treasures (src line 82): *)
(* one center per treasure, as a function on the treasures                  *)
treasure_room_position_combinations(d) ==
    {centers \in [d.treasures -> UNION {treasure_room_positions(d, p) : p \in d.treasures}] :
        \A p \in d.treasures : centers[p] \in treasure_room_positions(d, p)}

(* the combinations the loop does not skip (src line 88) *)
SurvivingCombinations(d) ==
    {centers \in treasure_room_position_combinations(d) :
        ~ \E a, b \in d.treasures :
            a # b /\ are_rooms_too_close(centers[a], centers[b])}

RoomTiles(c) == range_inc(c[1] - 1, c[1] + 1) \X range_inc(c[2] - 1, c[2] + 1)

(* the bitmap m of src lines 94-97 *)
RoomBitmap(centers) == UNION {RoomTiles(centers[p]) : p \in DOMAIN centers}

wall_positions(c) ==
    { <<c[1] - 2, c[2] - 1>>, <<c[1] - 2, c[2]>>, <<c[1] - 2, c[2] + 1>>,
      <<c[1] + 2, c[2] - 1>>, <<c[1] + 2, c[2]>>, <<c[1] + 2, c[2] + 1>>,
      <<c[1] - 1, c[2] - 2>>, <<c[1], c[2] - 2>>, <<c[1] + 1, c[2] - 2>>,
      <<c[1] - 1, c[2] + 2>>, <<c[1], c[2] + 2>>, <<c[1] + 1, c[2] + 2>> }

RoomWallCount == 11

(* every perimeter tile a wall: the room left without its entrance *)
treasure_room_layout_constraints_closed(d, m, centers) ==
    /\ \A p \in DOMAIN centers :
          BoolCount(d, m, wall_positions(centers[p])) = RoomWallCount + 1
    /\ \A p \in Tiles(d) :
          /\ (p \in RoomBitmap(centers)) => (wall_map(d, m, p) = FALSE)
          /\ treasure_map(d, m, p) = (p \in RoomBitmap(centers))

treasure_room_layout_constraints(d, m, centers) ==
    /\ \A p \in DOMAIN centers :
          BoolCount(d, m, wall_positions(centers[p])) = RoomWallCount
    /\ \A p \in Tiles(d) :
          /\ (p \in RoomBitmap(centers)) => (wall_map(d, m, p) = FALSE)
          /\ treasure_map(d, m, p) = (p \in RoomBitmap(centers))

(* s.add(Or(treasure_room_constraints)) *)
treasure_room_constraints(d, m) ==
    \E centers \in SurvivingCombinations(d) :
        treasure_room_layout_constraints(d, m, centers)

(* ---------------- the other constraints (src lines 31-51, 119-154) ---------------- *)
OutOfBoundsIsWall(d, m) == m.oob = TRUE

(* the loop of src lines 39-40 skipping the coordinates out of bounds *)
OccupancyExclusion_inbounds(d, m) ==
    \A p \in (d.monsters \cup d.treasures) \cap Tiles(d) : wall_map(d, m, p) = FALSE

(* the loop of src lines 39-40 left out *)
OccupancyExclusion_none(d, m) == TRUE

OccupancyExclusion(d, m) ==
    \A p \in d.monsters \cup d.treasures : wall_map(d, m, p) = FALSE

TreasureRoomGating(d, m) ==
    (Cardinality(d.treasures) = 0) =>
        \A p \in Tiles(d) : treasure_map(d, m, p) = FALSE

column(d, x) == {<<x, y>> : y \in 0 .. Height(d) - 1}

row(d, y) == {<<x, y>> : x \in 0 .. Width(d) - 1}

neighbours(p) ==
    { <<p[1], p[2] - 1>>, <<p[1] + 1, p[2]>>, <<p[1], p[2] + 1>>, <<p[1] - 1, p[2]>> }

ColumnHint(d, m, x) == BoolCount(d, m, column(d, x)) = d.col_hints[x + 1]

ColumnHints(d, m) == \A x \in 0 .. Width(d) - 1 : ColumnHint(d, m, x)

RowHints(d, m) ==
    \A y \in 0 .. Height(d) - 1 : BoolCount(d, m, row(d, y)) = d.row_hints[y + 1]

MonsterDeadEnds(d, m) ==
    \A p \in d.monsters : BoolCount(d, m, neighbours(p)) = 3

NoOtherDeadEnds(d, m) ==
    \A p \in Tiles(d) :
        IF BoolCount(d, m, neighbours(p)) = 3 /\ p \notin d.monsters
        THEN wall_map(d, m, p)
        ELSE TRUE

(* the Not on the tile's own wall variable left out *)
NoEmpty2x2_walls(d, m) ==
    \A p \in Tiles(d) :
        IF wall_map(d, m, p) /\ ~treasure_map(d, m, p)
        THEN \/ wall_map(d, m, <<p[1] + 1, p[2]>>)
             \/ wall_map(d, m, <<p[1], p[2] + 1>>)
             \/ wall_map(d, m, <<p[1] + 1, p[2] + 1>>)
        ELSE TRUE

NoEmpty2x2(d, m) ==
    \A p \in Tiles(d) :
        IF ~wall_map(d, m, p) /\ ~treasure_map(d, m, p)
        THEN \/ wall_map(d, m, <<p[1] + 1, p[2]>>)
             \/ wall_map(d, m, <<p[1], p[2] + 1>>)
             \/ wall_map(d, m, <<p[1] + 1, p[2] + 1>>)
        ELSE TRUE

(* everything asserted before the first check *)
Compiled(d, m) ==
    /\ OutOfBoundsIsWall(d, m)
    /\ OccupancyExclusion(d, m)
    /\ TreasureRoomGating(d, m)
    /\ treasure_room_constraints(d, m)
    /\ ColumnHints(d, m)
    /\ RowHints(d, m)
    /\ MonsterDeadEnds(d, m)
    /\ NoOtherDeadEnds(d, m)
    /\ NoEmpty2x2(d, m)

(* ---------------- the solver ---------------- *)
(* The assignments the solver has to look at.  The wall sets are built     *)
(* column by column from the sets that meet the column's hint, the         *)
(* treasure maps are the bitmaps the room disjunction equates them with;   *)
(* every other assignment falsifies ColumnHints or                         *)
(* treasure_room_constraints.                                              *)
ColumnChoices(d, x) ==
    {S \in SUBSET column(d, x) :
        ColumnHint(d, [w |-> S, t |-> {}, oob |-> TRUE], x)}

RECURSIVE WallChoices(_, _)
WallChoices(d, x) ==
    IF x < 0 THEN {{}}
    ELSE {A \cup B : A \in WallChoices(d, x - 1), B \in ColumnChoices(d, x)}

Assignments(d) ==
    [w : WallChoices(d, Width(d) - 1),
     t : {RoomBitmap(centers) : centers \in SurvivingCombinations(d)},
     oob : BOOLEAN]

(* the models of the compiled constraints *)
SatModels(d) == {m \in Assignments(d) : Compiled(d, m)}

(* number of s.add calls up to src line 154 *)
CompiledCount(d) ==
    1 + Cardinality(d.monsters) + Cardinality(d.treasures)
      + (IF Cardinality(d.treasures) = 0 THEN Cardinality(Tiles(d)) ELSE 0)
      + 1 + Width(d) + Height(d) + Cardinality(d.monsters)
      + 2 * Cardinality(Tiles(d))

(* the clause never added *)
BlockingClause_missing(d, m, n) == TRUE

(* the clause written with == for !=: n agrees with m on some tile *)
BlockingClause_agrees(d, m, n) ==
    \E p \in Tiles(d) : wall_map(d, n, p) = wall_map(d, m, p)

(* the clause written with And for Or: n differs from m on every tile *)
BlockingClause_everywhere(d, m, n) ==
    \A p \in Tiles(d) : wall_map(d, n, p) # wall_map(d, m, p)

(* the clause of src line 174: n differs from the model m on some tile *)
BlockingClause(d, m, n) ==
    \E p \in Tiles(d) : wall_map(d, n, p) # wall_map(d, m, p)

(* ---------------- rendering (src lines 176-191) ---------------- *)
Glyph(d, s, p) ==
    IF p \in d.monsters THEN "M"
    ELSE IF p \in d.treasures THEN "T"
    ELSE IF wall_map(d, s, p) THEN "#" ELSE "."

(* one printed solution: rows y = 0 .. height-1 of columns x = 0 .. width-1 *)
Render(d, s) ==
    [y \in 1 .. Height(d) |-> [x \in 1 .. Width(d) |-> Glyph(d, s, <<x - 1, y - 1>>)]]

Header(n) ==
    IF n = 1 THEN "A unique solution was found!"
    ELSE ToString(n) \o " solutions were found!"

Impossible == "Impossible. Did you mistype something?"

(* ---------------- instances ---------------- *)
Coords(W, H) == (-1 .. W) \X (-1 .. H)

RECURSIVE AtMost(_, _)
AtMost(S, n) ==
    IF n = 0 THEN {{}}
    ELSE AtMost(S, n - 1) \cup {A \cup {x} : A \in AtMost(S, n - 1), x \in S}

(* a puzzle made from an intended dungeon: g is the set of its walls *)
GridTiles(W, H) == (0 .. W - 1) \X (0 .. H - 1)

DeadEndsOf(W, H, g) ==
    {p \in GridTiles(W, H) \ g :
        Cardinality({q \in neighbours(p) : q \notin GridTiles(W, H) \/ q \in g}) = 3}

(* the monsters are the dead ends of the intended dungeon; haunted puts   *)
(* one more on every treasure                                              *)
PuzzleOf(W, H, g, ts, haunted) ==
    [col_hints |-> [x \in 1 .. W |-> Cardinality({p \in g : p[1] = x - 1})],
     row_hints |-> [y \in 1 .. H |-> Cardinality({p \in g : p[2] = y - 1})],
     monsters |-> DeadEndsOf(W, H, g) \cup (IF haunted THEN ts ELSE {}),
     treasures |-> ts]

(* the state when print_dungeon_solutions(d) is called *)
Start(d) ==
    /\ dungeon = d
    /\ pc = "Unchecked"
    /\ solver = {}
    /\ asserted = 0
    /\ checks = 0
    /\ solutions = <<>>
    /\ output = <<>>

(* any hints, monsters and treasures, in or out of bounds, on a tiny grid *)
TinyInit ==
    \E W \in 1 .. MaxW, H \in 1 .. MaxH :
      \E ch \in [1 .. W -> 0 .. MaxHint], rh \in [1 .. H -> 0 .. MaxHint] :
        \E ms \in AtMost(Coords(W, H), MaxMonsters), ts \in AtMost(Coords(W, H), MaxTreasures) :
          Start([col_hints |-> ch, row_hints |-> rh, monsters |-> ms, treasures |-> ts])

(* any walls on a small grid *)
DesignInit ==
    \E W \in 1 .. DesignW, H \in 1 .. DesignH :
      \E g \in SUBSET GridTiles(W, H), ts \in AtMost(GridTiles(W, H), DesignTreasures) :
        Start(PuzzleOf(W, H, g, ts, FALSE))

(* rooms on a larger grid: a treasure at the same offset in every room,   *)
(* walls on the rooms' perimeters but for at most one opening per room     *)
CenterPositions(W, H) == (1 .. W - 2) \X (1 .. H - 2)

Perimeter(W, H, cs) ==
    (UNION {wall_positions(c) : c \in cs} \cap GridTiles(W, H))
        \ UNION {RoomTiles(c) : c \in cs}

RoomInit ==
    \E W \in 1 .. RoomW, H \in 1 .. RoomH :
      \E cs \in AtMost(CenterPositions(W, H), MaxRooms) \ {{}} :
        \E off \in (-1 .. 1) \X (-1 .. 1), open \in AtMost(Perimeter(W, H, cs), Cardinality(cs)) :
          \E haunted \in BOOLEAN :
            Start(PuzzleOf(W, H, Perimeter(W, H, cs) \ open,
                           {<<c[1] + off[1], c[2] + off[2]>> : c \in cs}, haunted))

(* ---------------- print_dungeon_solutions ---------------- *)
(* src lines 16-154: create the solver and assert the constraints *)
Compile ==
    /\ pc = "Unchecked"
    /\ solver' = SatModels(dungeon)
    /\ asserted' = CompiledCount(dungeon)
    /\ pc' = "Compiled"
    /\ UNCHANGED <<dungeon, checks, solutions, output>>

(* src lines 160-163 *)
ReportImpossible ==
    /\ pc = "Compiled"
    /\ solver = {}
    /\ checks' = checks + 1
    /\ output' = <<Impossible>>
    /\ pc' = "Impossible"
    /\ UNCHANGED <<dungeon, solver, asserted, solutions>>

(* src lines 160, 165 *)
BeginEnumeration ==
    /\ pc = "Compiled"
    /\ solver # {}
    /\ checks' = checks + 1
    /\ solutions' = <<>>
    /\ pc' = "Solving"
    /\ UNCHANGED <<dungeon, solver, asserted, output>>

(* The model stops recording one past 2^(W*H), the number of wall          *)
(* assignments; the guard never holds the loop up while C10's bound holds. *)
SolutionCap(d) == 2 ^ Cardinality(Tiles(d)) + 1

(* src lines 167-174: one iteration of the loop *)
RecordSolution ==
    /\ pc = "Solving"
    /\ solver # {}
    /\ Len(solutions) < SolutionCap(dungeon)
    /\ \E m \in solver :
          /\ solutions' = Append(solutions, m)
          /\ solver' = {n \in solver : BlockingClause(dungeon, m, n)}
    /\ checks' = checks + 1
    /\ asserted' = asserted + 1
    /\ UNCHANGED <<dungeon, pc, output>>

(* src lines 167, 176-179: the check that ends the loop, and the header *)
Exhaust ==
    /\ pc = "Solving"
    /\ solver = {}
    /\ checks' = checks + 1
    /\ output' = <<Header(Len(solutions))>>
    /\ pc' = "Exhausted"
    /\ UNCHANGED <<dungeon, solver, asserted, solutions>>

(* src lines 181-191 *)
PrintSolutions ==
    /\ pc = "Exhausted"
    /\ output' = output \o [i \in 1 .. Len(solutions) |-> Render(dungeon, solutions[i])]
    /\ pc' = "Printed"
    /\ UNCHANGED <<dungeon, solver, asserted, checks, solutions>>

Next ==
    \/ Compile
    \/ ReportImpossible
    \/ BeginEnumeration
    \/ RecordSolution
    \/ Exhaust
    \/ PrintSolutions

Init == TinyInit \/ DesignInit \/ RoomInit

Spec == Init /\ [][Next]_vars

(* the program runs on: nothing but the solver's answer holds a step up *)
FairSpec == Spec /\ WF_vars(Next)

(* ======================== the claims ======================== *)
(* vocabulary of the claims *)
(* the recorded solutions, as a set *)
Recorded == {solutions[i] : i \in 1 .. Len(solutions)}

(* the wall assignments of a set of models *)
WallsOf(S) == {m.w : m \in S}

(* a printed grid read back: the wall glyph is a wall, M, T and the floor *)
(* glyph are not                                                           *)
Parse(d, grid) ==
    {p \in Tiles(d) : grid[p[2] + 1][p[1] + 1] = "#"}

(* the 1x1 puzzle of scenario A *)
ScenarioA ==
    [col_hints |-> <<0>>, row_hints |-> <<0>>, monsters |-> {}, treasures |-> {}]

(* a monster or treasure out of bounds, or a tile that is both *)
InputShapeViolation(d) ==
    \/ \E p \in d.monsters \cup d.treasures : p \notin Tiles(d)
    \/ d.monsters \cap d.treasures # {}

Abs(n) == IF n < 0 THEN -n ELSE n

(* one center per treasure, within 1 of it and strictly inside the grid *)
CentersNear(d) ==
    {f \in [d.treasures -> UNION {RoomTiles(p) : p \in d.treasures}] :
        \A p \in d.treasures :
            /\ Abs(f[p][1] - p[1]) <= 1 /\ Abs(f[p][2] - p[2]) <= 1
            /\ 0 < f[p][1] /\ f[p][1] < Width(d) - 1
            /\ 0 < f[p][2] /\ f[p][2] < Height(d) - 1}

(* two centers 4 or more apart on some axis *)
Apart(a, b) == Abs(a[1] - b[1]) >= 4 \/ Abs(a[2] - b[2]) >= 4

NoCombinationSurvives(d) ==
    ~ \E f \in CentersNear(d) :
        \A a, b \in d.treasures : a # b => Apart(f[a], f[b])

(* the 12 tiles at dx = +-2, dy in -1..1 and at dy = +-2, dx in -1..1 *)
Ring(c) ==
    {q \in (c[1] - 2 .. c[1] + 2) \X (c[2] - 2 .. c[2] + 2) :
        \/ Abs(q[1] - c[1]) = 2 /\ Abs(q[2] - c[2]) <= 1
        \/ Abs(q[2] - c[2]) = 2 /\ Abs(q[1] - c[1]) <= 1}

(* the walls on the ring of c in solution s, out of bounds being wall *)
RingWalls(d, s, c) ==
    Cardinality({q \in Ring(c) : q \notin Tiles(d) \/ q \in s.w})

(* solution s gives every treasure a room as C5 describes it *)
WellRoomed(d, s) ==
    \E f \in [d.treasures -> UNION {RoomTiles(p) : p \in d.treasures}] :
        /\ \A p \in d.treasures :
              /\ p \in RoomTiles(f[p])
              /\ RoomTiles(f[p]) \subseteq Tiles(d) \ s.w
              /\ Cardinality(Ring(f[p])) = 12
              /\ RingWalls(d, s, f[p]) = 11
        /\ \A a, b \in d.treasures : a # b => Apart(f[a], f[b])
        /\ s.t = UNION {RoomTiles(f[p]) : p \in d.treasures}

(* the 2x2 block whose top left tile is p *)
Block(p) == {p, <<p[1] + 1, p[2]>>, <<p[1], p[2] + 1>>, <<p[1] + 1, p[2] + 1>>}

(* the disjuncts of the room constraint that model m satisfies *)
LayoutsHolding(d, m) ==
    {centers \in SurvivingCombinations(d) : treasure_room_layout_constraints(d, m, centers)}

(* the function has returned *)
Ended == pc \in {"Impossible", "Printed"}

(* C1: no two recorded solutions have the same walls, and no model the     *)
(* solver can still return has the walls of a recorded solution.           *)
C1_NoWallAssignmentTwice ==
    /\ \A i, j \in 1 .. Len(solutions) :
          i # j => solutions[i].w # solutions[j].w
    /\ \A i \in 1 .. Len(solutions) :
          \A n \in solver : n.w # solutions[i].w

C1_Witness == pc = "Solving" /\ Len(solutions) >= 2 /\ solver # {}

(* C2: while the loop runs the solver holds exactly the wall assignments   *)
(* of the compiled constraints that were not recorded, and when the loop   *)
(* has ended the recorded wall assignments are all of them.                *)
C2_EnumerationComplete ==
    /\ pc = "Solving" =>
          WallsOf(solver) = WallsOf(SatModels(dungeon)) \ WallsOf(Recorded)
    /\ pc \in {"Exhausted", "Printed"} =>
          WallsOf(Recorded) = WallsOf(SatModels(dungeon))

C2_Witness == pc = "Exhausted" /\ Cardinality(WallsOf(Recorded)) >= 3

(* C7: reading a printed grid back, the wall glyph as wall and every other *)
(* glyph as not wall, gives the walls of the solution it was printed from. *)
C7_RenderParseRoundTrip ==
    pc = "Printed" =>
        /\ Len(output) = 1 + Len(solutions)
        /\ \A i \in 1 .. Len(solutions) :
              Parse(dungeon, output[i + 1]) = solutions[i].w

C7_Witness ==
    /\ pc = "Printed"
    /\ \E i \in 1 .. Len(solutions) :
          /\ solutions[i].w # {}
          /\ dungeon.monsters # {}
          /\ dungeon.treasures # {}

(* C8: without treasures there is exactly one layout, the empty one; it    *)
(* holds of every wall assignment once the treasure map is all false; and  *)
(* the 1x1 puzzle with hints 0 and 0 has one solution, the tile a floor.   *)
C8_NoTreasureOneLayout ==
    /\ dungeon.treasures = {} =>
          /\ Cardinality(SurvivingCombinations(dungeon)) = 1
          /\ \A centers \in SurvivingCombinations(dungeon) : DOMAIN centers = {}
          /\ \A w \in SUBSET Tiles(dungeon) :
                treasure_room_constraints(dungeon, [w |-> w, t |-> {}, oob |-> TRUE])
    /\ dungeon = ScenarioA =>
          /\ pc # "Impossible"
          /\ pc \in {"Exhausted", "Printed"} =>
                Len(solutions) = 1 /\ solutions[1].w = {} /\ solutions[1].t = {}

C8_Witness == dungeon = ScenarioA /\ pc = "Printed"

(* C3, as claimed: an instance with a monster or treasure out of bounds,   *)
(* or with a tile that is both, is rejected before any constraint is       *)
(* asserted and before the solver is asked; it is never compiled, reported *)
(* impossible or solved.                                                   *)
C3_RejectedBeforeCompilation ==
    InputShapeViolation(dungeon) =>
        /\ asserted = 0
        /\ checks = 0
        /\ pc \notin {"Compiled", "Impossible", "Solving", "Exhausted", "Printed"}

(* C3, amended: such an instance is not rejected; it is compiled like any  *)
(* other, its constraints have no model, and the first check reports it    *)
(* impossible with no solution recorded.                                   *)
C3_MalformedReportedImpossible ==
    InputShapeViolation(dungeon) =>
        /\ pc # "Unchecked" => (asserted > 0 /\ solver = {})
        /\ pc \in {"Unchecked", "Compiled", "Impossible"}
        /\ solutions = <<>>
        /\ pc = "Impossible" => (checks = 1 /\ output = <<Impossible>>)

C3_Witness ==
    /\ pc = "Impossible"
    /\ output = <<Impossible>>
    /\ \E p \in dungeon.monsters : p \notin Tiles(dungeon)

(* C4: with treasures and no way to give each a center strictly inside the *)
(* grid and within 1 of it, the centers pairwise 4 or more apart on some   *)
(* axis, no model exists, the instance is reported impossible and nothing  *)
(* is recorded; so it is on every grid narrower or lower than 3 that has a *)
(* treasure.                                                               *)
C4_NoPlacementImpossible ==
    /\ (dungeon.treasures # {} /\ NoCombinationSurvives(dungeon)) =>
          /\ SurvivingCombinations(dungeon) = {}
          /\ pc # "Unchecked" => solver = {}
          /\ pc \in {"Unchecked", "Compiled", "Impossible"}
          /\ solutions = <<>>
          /\ pc = "Impossible" => output = <<Impossible>>
    /\ (dungeon.treasures # {} /\ (Width(dungeon) < 3 \/ Height(dungeon) < 3)) =>
          NoCombinationSurvives(dungeon)

(* every treasure has centers of its own, and yet no combination survives *)
C4_Witness ==
    /\ pc = "Impossible"
    /\ Cardinality(dungeon.treasures) = 2
    /\ CentersNear(dungeon) # {}
    /\ NoCombinationSurvives(dungeon)

(* C5: in every recorded solution of an instance with a treasure, each     *)
(* treasure lies in a 3x3 block of floor inside the grid whose 12          *)
(* perimeter tiles (out of bounds counting as wall) hold exactly 11 walls, *)
(* and the centers of two treasures' rooms are 4 or more apart on some     *)
(* axis.                                                                   *)
C5_RoomsWalledAndApart ==
    \A i \in 1 .. Len(solutions) :
        dungeon.treasures # {} => WellRoomed(dungeon, solutions[i])

C5_Witness ==
    /\ pc = "Printed"
    /\ Len(solutions) >= 1
    /\ Cardinality(dungeon.treasures) = 2

(* C6: in every recorded solution a 2x2 block of the grid with no wall in  *)
(* it lies wholly inside the treasure rooms.                               *)
C6_NoBare2x2 ==
    \A i \in 1 .. Len(solutions) :
        \A p \in Tiles(dungeon) :
            (Block(p) \subseteq Tiles(dungeon) /\ Block(p) \cap solutions[i].w = {})
                => Block(p) \subseteq solutions[i].t

(* a block the compiled rule does not look at, its top left tile being a   *)
(* room tile, that reaches out of the room onto the floor of its entrance  *)
C6_Witness ==
    /\ pc = "Printed"
    /\ \E i \in 1 .. Len(solutions) :
          \E p \in solutions[i].t :
              /\ Block(p) \subseteq Tiles(dungeon)
              /\ \E q \in Block(p) : q \notin solutions[i].t /\ q \notin solutions[i].w

(* C9: two different surviving combinations never mark the same tiles, and *)
(* every model of the compiled constraints satisfies exactly one layout.   *)
C9_ExactlyOneLayout ==
    /\ \A c1, c2 \in SurvivingCombinations(dungeon) :
          c1 # c2 => RoomBitmap(c1) # RoomBitmap(c2)
    /\ \A m \in solver \cup Recorded :
          Cardinality(LayoutsHolding(dungeon, m)) = 1

C9_Witness ==
    /\ pc = "Solving"
    /\ solver # {}
    /\ Cardinality(dungeon.treasures) = 2
    /\ Cardinality(SurvivingCombinations(dungeon)) >= 3

(* C10: the run ends, reporting the instance impossible or printing the    *)
(* solutions; the loop is left at the first check that finds no model; and *)
(* at no time are more than 2^(W*H) solutions recorded.                    *)
C10_EnumerationTerminates ==
    /\ <>Ended
    /\ [](Len(solutions) <= 2 ^ (Width(dungeon) * Height(dungeon)))
    /\ [][(pc = "Solving" /\ solver = {}) => pc' = "Exhausted"]_vars

C10_Witness ==
    /\ pc = "Exhausted"
    /\ Len(solutions) >= 4
    /\ checks = Len(solutions) + 2

====
